---- MODULE Spec2Model ----
(***************************************************************************)
(* include_absolute_path: the path-resolution pipeline of src/lib.rs.      *)
(*                                                                         *)
(* Text (a Rust String, a Path, an OsString) is a sequence of characters,  *)
(* each character a one-element TLA+ string; "xFF" stands for one byte     *)
(* that is not valid UTF-8.  The state is the locals of the macro          *)
(* function, the position reached in it, and what it has produced.  Init   *)
(* is the state at lib.rs:103, with the literal parsed and the caller's    *)
(* file known.                                                             *)
(***************************************************************************)
EXTENDS Integers, Sequences, FiniteSets, TLC

\* ------------------------------------------------------------------ bounds

\* Longest generated path, in segments.
MaxSegs == 8

\* Symbolic links followed by one canonicalization before it gives up.
MaxLinks == 3

\* ------------------------------------------------------------- text helpers

NoValue == <<"<none>">>

SEP == "/"

\* The segments of a text between separators: "/a//b" is "", "a", "", "b".
RECURSIVE SplitSegs(_)
SplitSegs(s) ==
    IF \A i \in 1..Len(s) : s[i] # SEP THEN <<s>>
    ELSE LET i == CHOOSE k \in 1..Len(s) :
                      s[k] = SEP /\ \A j \in 1..(k - 1) : s[j] # SEP
         IN  <<SubSeq(s, 1, i - 1)>> \o SplitSegs(SubSeq(s, i + 1, Len(s)))

DOT == <<".">>
DOTDOT == <<".", ".">>

\* ------------------------------------------------- std::path::Path (Unix)

has_root(s) == Len(s) > 0 /\ s[1] = SEP

\* A leading "." is the only "." that is a component.
include_cur_dir(s) == ~has_root(s) /\ SplitSegs(s)[1] = DOT

parse_single_component(seg) ==
    IF seg = <<>> \/ seg = DOT THEN [kind |-> "None", name |-> seg]
    ELSE IF seg = DOTDOT THEN [kind |-> "ParentDir", name |-> seg]
    ELSE [kind |-> "Normal", name |-> seg]

RECURSIVE BodyComponents(_)
BodyComponents(segs) ==
    IF segs = <<>> THEN <<>>
    ELSE LET c == parse_single_component(Head(segs))
         IN  (IF c.kind = "None" THEN <<>> ELSE <<c>>) \o BodyComponents(Tail(segs))

\* Path::components(): the root, a leading ".", then the named and ".." segments;
\* empty segments and every other "." are normalized away.
components(s) ==
    (IF has_root(s) THEN <<[kind |-> "RootDir", name |-> <<SEP>>]>> ELSE <<>>)
    \o (IF include_cur_dir(s) THEN <<[kind |-> "CurDir", name |-> DOT]>> ELSE <<>>)
    \o BodyComponents(SplitSegs(s))

is_absolute(s) == has_root(s)

len_before_body(s) ==
    (IF has_root(s) THEN 1 ELSE 0) + (IF include_cur_dir(s) THEN 1 ELSE 0)

\* The last segment of the body of s, and how many characters it and its
\* separator take.
parse_next_component_back(s, lb) ==
    LET body == SubSeq(s, lb + 1, Len(s))
        seps == {i \in 1..Len(body) : body[i] = SEP}
        last == IF seps = {} THEN 0 ELSE CHOOSE i \in seps : \A j \in seps : j <= i
        comp == SubSeq(body, last + 1, Len(body))
    IN  [size |-> Len(comp) + (IF seps = {} THEN 0 ELSE 1),
         comp |-> parse_single_component(comp)]

\* Components::next_back within the body: the last component and what is
\* left in front of it.
RECURSIVE next_back(_, _)
next_back(s, lb) ==
    IF Len(s) > lb
    THEN LET r    == parse_next_component_back(s, lb)
             rest == SubSeq(s, 1, Len(s) - r.size)
         IN  IF r.comp.kind # "None" THEN [comp |-> r.comp, rest |-> rest]
             ELSE next_back(rest, lb)
    ELSE [comp |-> [kind |-> "None", name |-> <<>>], rest |-> s]

RECURSIVE trim_right(_, _)
trim_right(s, lb) ==
    IF Len(s) > lb
    THEN LET r == parse_next_component_back(s, lb)
         IN  IF r.comp.kind # "None" THEN s
             ELSE trim_right(SubSeq(s, 1, Len(s) - r.size), lb)
    ELSE s

\* Path::parent(): the path without its last component, None when the last
\* component is the root or there is none.
parent(s) ==
    LET lb == len_before_body(s)
        r  == next_back(s, lb)
    IN  IF r.comp.kind # "None"
        THEN [some |-> TRUE, path |-> trim_right(r.rest, lb)]
        ELSE IF include_cur_dir(s) THEN [some |-> TRUE, path |-> <<>>]
        ELSE [some |-> FALSE, path |-> NoValue]

\* Path::join (PathBuf::push): an absolute path replaces the base; otherwise
\* the path is appended as written, after a separator when the base needs one.
join(base, p) ==
    IF is_absolute(p) THEN p
    ELSE IF Len(base) > 0 /\ base[Len(base)] # SEP THEN base \o <<SEP>> \o p
    ELSE base \o p

\* ------------------------------------------- contains_suspicious_patterns

\* The for loop of contains_suspicious_patterns over the components from
\* index i on, starting from the counters in acc.
RECURSIVE CountLoop(_, _, _)
CountLoop(comps, i, acc) ==
    IF i > Len(comps) THEN acc
    ELSE CountLoop(comps, i + 1,
                   [total_components |-> acc.total_components + 1,
                    up_count |-> IF comps[i].kind = "ParentDir"
                                 THEN acc.up_count + 1 ELSE acc.up_count])

count_components(p) ==
    CountLoop(components(p), 1, [total_components |-> 0, up_count |-> 0])

\* The comparison with half the components made with >= instead of >.
suspicious_verdict_ge(up, total) ==
    up > 3 \/ (total > 0 /\ up >= total \div 2)

\* The two conditions joined with "and" instead of "or".
suspicious_verdict_and(up, total) ==
    up > 3 /\ (total > 0 /\ up > total \div 2)

\* The comparison with half the components left out.
suspicious_verdict_count_only(up, total) ==
    up > 3

suspicious_verdict(up, total) ==
    up > 3 \/ (total > 0 /\ up > total \div 2)

contains_suspicious_patterns(p) ==
    LET n == count_components(p)
    IN  suspicious_verdict(n.up_count, n.total_components)

\* -------------------------------------------------------- shellexpand::env

\* Characters a variable name is made of (alphanumeric or "_"), within the
\* alphabet of the model.
NameChars == {"a", "c", "h", "l", "m", "n", "p", "s", "t", "z", "H", "U", "_"}

Unset == <<"<unset>">>
NotUnicode == <<"<not unicode>">>

\* std::env::var: Err for a variable that is not set or whose value is not
\* valid Unicode.
\* A variable that is not there reads as the empty text.
env_var_or_default(e, name) ==
    IF name \in DOMAIN e /\ e[name] # Unset /\ e[name] # NotUnicode
    THEN [ok |-> TRUE, value |-> e[name]]
    ELSE [ok |-> TRUE, value |-> <<>>]

env_var(e, name) ==
    IF name \in DOMAIN e /\ e[name] # Unset /\ e[name] # NotUnicode
    THEN [ok |-> TRUE, value |-> e[name]]
    ELSE [ok |-> FALSE, value |-> NoValue]

\* Length of the longest prefix of s made of name characters.
RECURSIVE NameLen(_)
NameLen(s) ==
    IF s # <<>> /\ Head(s) \in NameChars THEN 1 + NameLen(Tail(s)) ELSE 0

FirstIndexOf(s, ch) ==
    IF \E i \in 1..Len(s) : s[i] = ch
    THEN CHOOSE i \in 1..Len(s) : s[i] = ch /\ \A j \in 1..(i - 1) : s[j] # ch
    ELSE 0

Drop(s, n) == SubSeq(s, n + 1, Len(s))

\* shellexpand::env(input): every $NAME and ${NAME} replaced by the value of
\* the variable, left to right, values not expanded again; the first failed
\* lookup ends the expansion with an error naming the variable.  A "$" that
\* starts no reference is kept, "$$" is one "$", and "${" without "}" is kept.
RECURSIVE shellexpand_env(_, _)
shellexpand_env(input, e) ==
    IF input = <<>> THEN [ok |-> TRUE, value |-> <<>>, var_name |-> NoValue]
    ELSE IF Head(input) # "$"
    THEN LET r == shellexpand_env(Tail(input), e)
         IN  IF r.ok THEN [r EXCEPT !.value = <<Head(input)>> \o r.value] ELSE r
    ELSE LET after == Tail(input)
             close == FirstIndexOf(input, "}")
         IN  IF after # <<>> /\ Head(after) = "{"
             THEN IF close = 0
                  THEN LET r == shellexpand_env(Drop(input, 2), e)
                       IN  IF r.ok THEN [r EXCEPT !.value = <<"$", "{">> \o r.value]
                           ELSE r
                  ELSE LET name == SubSeq(input, 3, close - 1)
                           v    == env_var(e, name)
                           r    == shellexpand_env(Drop(input, close), e)
                       IN  IF ~v.ok
                           THEN [ok |-> FALSE, value |-> NoValue, var_name |-> name]
                           ELSE IF r.ok THEN [r EXCEPT !.value = v.value \o r.value]
                           ELSE r
             ELSE IF NameLen(after) > 0
             THEN LET n    == NameLen(after)
                      name == SubSeq(after, 1, n)
                      v    == env_var(e, name)
                      r    == shellexpand_env(Drop(after, n), e)
                  IN  IF ~v.ok
                      THEN [ok |-> FALSE, value |-> NoValue, var_name |-> name]
                      ELSE IF r.ok THEN [r EXCEPT !.value = v.value \o r.value]
                      ELSE r
             ELSE LET r == shellexpand_env(
                              IF after # <<>> /\ Head(after) = "$"
                              THEN Drop(input, 2) ELSE after, e)
                  IN  IF r.ok THEN [r EXCEPT !.value = <<"$">> \o r.value] ELSE r

\* ------------------------------------------------------ the file system

\* An entry is named by the names on the way to it from the root.
Root == <<>>

Dirs ==
    { Root, << <<"p">> >>, << <<"p">>, <<"s">> >>, << <<"h">> >>,
      << <<"h">>, <<"a">> >>, << <<"h">>, <<"xFF">> >> }

Files ==
    { << <<"p">>, <<"c">> >>, << <<"p">>, <<"s">>, <<"m">> >>,
      << <<"p">>, <<"s">>, <<"t">> >>, << <<"h">>, <<"m">> >>, << <<"m">> >> }

\* Symbolic links and the text each holds.
LinkAt == << <<"p">>, <<"s">>, <<"l">> >>
LinkNonUtf8 == << <<"p">>, <<"s">>, <<"n">> >>
Links == {LinkAt, LinkNonUtf8}
LinkTarget(node) ==
    IF node = LinkAt THEN <<"/", "h">> ELSE <<"/", "h", "/", "xFF">>

\* std::env::current_dir() of the build.
CurrentDir == << <<"p">> >>

DirOf(node) == IF node = Root THEN Root ELSE SubSeq(node, 1, Len(node) - 1)

Found(node) == [ok |-> TRUE, node |-> node, err |-> "none"]
Failed(err) == [ok |-> FALSE, node |-> Root, err |-> err]

\* realpath(3) from directory cur over the segments left, following at most
\* fuel more links: an entry, or the error of the first step that fails.
RECURSIVE Resolve(_, _, _)
Resolve(cur, segs, fuel) ==
    IF segs = <<>> THEN Found(cur)
    ELSE IF cur \notin Dirs THEN Failed("ENOTDIR")
    ELSE LET seg == Head(segs)
             child == Append(cur, seg)
         IN  IF seg = <<>> \/ seg = DOT THEN Resolve(cur, Tail(segs), fuel)
             ELSE IF seg = DOTDOT THEN Resolve(DirOf(cur), Tail(segs), fuel)
             ELSE IF child \in Dirs \cup Files THEN Resolve(child, Tail(segs), fuel)
             ELSE IF child \in Links
             THEN IF fuel = 0 THEN Failed("ELOOP")
                  ELSE LET t == LinkTarget(child)
                       IN  Resolve(IF has_root(t) THEN Root ELSE cur,
                                   SplitSegs(t) \o Tail(segs), fuel - 1)
             ELSE Failed("ENOENT")

RECURSIVE PathOf(_)
PathOf(node) ==
    IF node = Root THEN <<SEP>>
    ELSE (IF Len(node) = 1 THEN <<>> ELSE PathOf(DirOf(node)))
         \o <<SEP>> \o node[Len(node)]

\* The path made absolute as written, the file system not consulted.
canonicalize_lexical(p) ==
    IF p = <<>> THEN [ok |-> FALSE, path |-> NoValue, err |-> "ENOENT"]
    ELSE [ok |-> TRUE,
          path |-> IF has_root(p) THEN p ELSE PathOf(CurrentDir) \o <<SEP>> \o p,
          err |-> "none"]

\* Path::canonicalize: the absolute path of the entry the path leads to, with
\* links followed and "." and ".." resolved on the way, or the OS error.
canonicalize(p) ==
    IF p = <<>> THEN [ok |-> FALSE, path |-> NoValue, err |-> "ENOENT"]
    ELSE LET r == Resolve(IF has_root(p) THEN Root ELSE CurrentDir,
                          SplitSegs(p), MaxLinks)
         IN  IF r.ok THEN [ok |-> TRUE, path |-> PathOf(r.node), err |-> "none"]
             ELSE [ok |-> FALSE, path |-> NoValue, err |-> r.err]

\* Path::to_str: None when the path is not valid UTF-8.
to_str(p) ==
    IF \E i \in 1..Len(p) : p[i] = "xFF"
    THEN [some |-> FALSE, str |-> NoValue]
    ELSE [some |-> TRUE, str |-> p]

\* ------------------------------------------------------------- the inputs

\* Literals given to the macro: those of the documentation and the tests
\* (with the names of the model's file system), and others around them.
DocPaths ==
    { <<"/", "h">>,                                     \* "/home"
      <<"t">>,                                          \* "test_file.txt"
      <<"$", "H">>,                                     \* "$HOME"
      <<"$", "H", "/", ".", ".", "/">>,                 \* "$HOME/../"
      <<"$", "{", "H", "}">>,                           \* "${HOME}"
      <<"$", "H", "/", "m">>,
      <<".", ".", "/", "c">>,                           \* "../config.toml"
      <<"/", "p", "/", "c">>,                           \* "/etc/hosts"
      <<"z">>,                                          \* "non_existent_file.txt"
      <<"/", "z">>,
      <<".", ".", "/", ".", ".", "/", ".", ".", "/", ".", ".", "/", "h", "/", "a">>,
      <<".", ".", "/", ".", ".", "/", ".", ".", "/", ".", ".", "/", "z">>,
      <<"/", ".", ".", "/", ".", ".", "/", ".", ".", "/", ".", ".", "/", "h", "/", "a">>,
      <<".", ".", "/", ".", ".", "/", "h", "/", "a">>,
      <<".", ".", "/", ".", ".", "/", ".", ".", "/", "h", "/", "a", "/", ".">>,
      <<".", ".", "/", "/", ".", ".", "/", "/", "h", "/", "a", "/">>,
      <<"$", "U">>,
      <<"$", "{", "U", "}", "/", "c">>,
      <<"$", "U", "/", ".", ".", "/", ".", ".", "/", ".", ".", "/", ".", ".", "/", "z">>,
      <<"$", "H", "z">>,
      <<"$", "H", "/", "$", "U">>,
      <<"$", "{", "H">>,
      <<"$", "/", "c">>,
      <<"$", "$", "U">>,
      <<"l">>,
      <<"l", "/", ".", ".">>,
      <<"l", "/", ".", ".", "/", "h", "/", "a">>,
      <<"/", "p", "/", "s", "/", "l", "/", "a">>,
      <<"n">>,
      <<"/", "p", "/", "s", "/", "n">>,
      <<"t", "/", ".", ".">>,
      <<"t", "/">>,
      <<>>,
      <<"/">>,
      <<".">>,
      <<".", ".">>,
      <<".", ".", "/", ".", ".">> }

\* Generated literals: an optional root or leading ".", up to MaxSegs segments
\* ".." and "a", and an optional trailing separator or ".".
GenSegs == {DOTDOT, <<"a">>}

GenPrefixes == {<<>>, <<SEP>>, <<".", SEP>>}

GenSuffixes == {<<>>, <<SEP>>, <<SEP, ".">>}

RECURSIVE JoinSegs(_)
JoinSegs(segs) ==
    IF segs = <<>> THEN <<>>
    ELSE IF Len(segs) = 1 THEN segs[1]
    ELSE segs[1] \o <<SEP>> \o JoinSegs(Tail(segs))

GenPaths ==
    { pre \o JoinSegs(segs) \o suf :
        pre \in GenPrefixes, suf \in GenSuffixes,
        segs \in UNION {[1..n -> GenSegs] : n \in 0..MaxSegs} }

\* Files the macro is called from, as Span::local_file() gives them: absolute
\* or relative to the directory of the build, and the paths that have no
\* parent.
Callers ==
    { <<"/", "p", "/", "s", "/", "m">>,                 \* "/proj/src/main.ext"
      <<"/", "h", "/", "m">>,
      <<"/", "m">>,
      <<"s", "/", "m">>,
      <<"m">>,
      <<"/">>,
      <<>> }

GenCaller == <<"/", "h", "/", "m">>

VarH == <<"H">>

\* The environment of the build: H holds a directory, or is not set, or is not
\* valid Unicode; no other variable is set.
EnvValues ==
    { <<"/", "h", "/", "a">>, <<"/", "h">>, <<"/", "p", "/", "s", "/", "l">>,
      Unset, NotUnicode }

Envs == [{VarH} -> EnvValues]

GenEnv == [n \in {VarH} |-> <<"/", "h">>]

\* --------------------------------------------------------------- the state

VARIABLES
    path,              \* the literal given to the macro (lit_str.value())
    caller_file,       \* the file the macro is called from
    env,               \* the environment of the build
    pc,                \* the statement of include_absolute_path reached
    expanded_path,     \* the result of shellexpand::env
    path_buf,          \* PathBuf::from(expanded_path)
    up_count,          \* counters of contains_suspicious_patterns
    total_components,
    raw_path,          \* the absolute, not yet canonical path
    absolute_path,     \* the canonical path
    outcome,           \* how the invocation ended
    surfaced,          \* how the outcome was handed to the compiler
    result,            \* the string literal returned
    fs_accesses,       \* calls made to the file system so far
    stages             \* the stages run so far, in order

vars ==
    << path, caller_file, env, pc, expanded_path, path_buf, up_count,
       total_components, raw_path, absolute_path, outcome, surfaced, result,
       fs_accesses, stages >>

Init ==
    /\ \/ path \in DocPaths /\ caller_file \in Callers /\ env \in Envs
       \/ path \in GenPaths /\ caller_file = GenCaller /\ env = GenEnv
    /\ pc = "expand"
    /\ expanded_path = NoValue
    /\ path_buf = NoValue
    /\ up_count = 0
    /\ total_components = 0
    /\ raw_path = NoValue
    /\ absolute_path = NoValue
    /\ outcome = "Running"
    /\ surfaced = "nothing"
    /\ result = NoValue
    /\ fs_accesses = 0
    /\ stages = <<>>

\* The anchor resolver placed before the validator.
StageAfter_anchor_first(stage) ==
    CASE stage = "expand" -> "anchor"
      [] stage = "anchor" -> "validate"
      [] stage = "validate" -> "canonicalize"
      [] stage = "canonicalize" -> "to_str"
      [] stage = "to_str" -> "done"

\* The statements of the function follow one another in this order.
StageAfter(stage) ==
    CASE stage = "expand" -> "validate"
      [] stage = "validate" -> "anchor"
      [] stage = "anchor" -> "canonicalize"
      [] stage = "canonicalize" -> "to_str"
      [] stage = "to_str" -> "done"

\* panic!: the macro aborts with a message.
Panic(kind) ==
    /\ outcome' = kind
    /\ surfaced' = "panic"
    /\ result' = NoValue
    /\ pc' = "done"

\* Error::new(span, ..).to_compile_error(): a diagnostic at the literal.
CompileError(kind) ==
    /\ outcome' = kind
    /\ surfaced' = "compile_error"
    /\ result' = NoValue
    /\ pc' = "done"

Continue(stage) ==
    /\ pc' = StageAfter(stage)
    /\ UNCHANGED <<outcome, surfaced, result>>

\* let expanded_path = match shellexpand::env(&path) ..; let path_buf = ..
ExpandEnv ==
    /\ pc = "expand"
    /\ stages' = Append(stages, "expand")
    /\ LET r == shellexpand_env(path, env)
       IN  \/ /\ r.ok
              /\ expanded_path' = r.value
              /\ path_buf' = r.value
              /\ Continue("expand")
           \/ /\ ~r.ok
              /\ Panic("EnvExpansionError")
              /\ UNCHANGED <<expanded_path, path_buf>>
    /\ UNCHANGED << path, caller_file, env, up_count, total_components, raw_path,
                    absolute_path, fs_accesses >>

\* The validator given the literal instead of the expanded path.
Validate_raw_literal ==
    /\ pc = "validate"
    /\ stages' = Append(stages, "validate")
    /\ up_count' = count_components(path).up_count
    /\ total_components' = count_components(path).total_components
    /\ \/ /\ contains_suspicious_patterns(path)
          /\ CompileError("SuspiciousPathError")
       \/ /\ ~contains_suspicious_patterns(path)
          /\ Continue("validate")
    /\ UNCHANGED << path, caller_file, env, expanded_path, path_buf, raw_path,
                    absolute_path, fs_accesses >>

\* if contains_suspicious_patterns(&path_buf) { return Error::new(..) }
Validate ==
    /\ pc = "validate"
    /\ stages' = Append(stages, "validate")
    /\ up_count' = count_components(path_buf).up_count
    /\ total_components' = count_components(path_buf).total_components
    /\ \/ /\ contains_suspicious_patterns(path_buf)
          /\ CompileError("SuspiciousPathError")
       \/ /\ ~contains_suspicious_patterns(path_buf)
          /\ Continue("validate")
    /\ UNCHANGED << path, caller_file, env, expanded_path, path_buf, raw_path,
                    absolute_path, fs_accesses >>

\* The parent of the caller's file taken before the path is looked at.
Anchor_parent_first ==
    /\ pc = "anchor"
    /\ stages' = Append(stages, "anchor")
    /\ \/ /\ parent(caller_file).some
          /\ is_absolute(path_buf)
          /\ raw_path' = path_buf
          /\ Continue("anchor")
       \/ /\ parent(caller_file).some
          /\ ~is_absolute(path_buf)
          /\ raw_path' = join(parent(caller_file).path, path_buf)
          /\ Continue("anchor")
       \/ /\ ~parent(caller_file).some
          /\ Panic("NoParentDirectoryError")
          /\ UNCHANGED raw_path
    /\ UNCHANGED << path, caller_file, env, expanded_path, path_buf, up_count,
                    total_components, absolute_path, fs_accesses >>

\* A relative path joined onto the directory of the build.
Anchor_at_current_dir ==
    /\ pc = "anchor"
    /\ stages' = Append(stages, "anchor")
    /\ \/ /\ is_absolute(path_buf)
          /\ raw_path' = path_buf
          /\ Continue("anchor")
       \/ /\ ~is_absolute(path_buf)
          /\ raw_path' = join(PathOf(CurrentDir), path_buf)
          /\ Continue("anchor")
    /\ UNCHANGED << path, caller_file, env, expanded_path, path_buf, up_count,
                    total_components, absolute_path, fs_accesses >>

\* let raw_path = if path_buf.is_absolute() { path_buf } else { parent.join(..) }
Anchor ==
    /\ pc = "anchor"
    /\ stages' = Append(stages, "anchor")
    /\ \/ /\ is_absolute(path_buf)
          /\ raw_path' = path_buf
          /\ Continue("anchor")
       \/ /\ ~is_absolute(path_buf)
          /\ parent(caller_file).some
          /\ raw_path' = join(parent(caller_file).path, path_buf)
          /\ Continue("anchor")
       \/ /\ ~is_absolute(path_buf)
          /\ ~parent(caller_file).some
          /\ Panic("NoParentDirectoryError")
          /\ UNCHANGED raw_path
    /\ UNCHANGED << path, caller_file, env, expanded_path, path_buf, up_count,
                    total_components, absolute_path, fs_accesses >>

\* let absolute_path = match raw_path.canonicalize() ..
Canonicalize ==
    /\ pc = "canonicalize"
    /\ stages' = Append(stages, "canonicalize")
    /\ fs_accesses' = fs_accesses + 1
    /\ LET r == canonicalize(raw_path)
       IN  \/ /\ r.ok
              /\ absolute_path' = r.path
              /\ Continue("canonicalize")
           \/ /\ ~r.ok
              /\ Panic("CanonicalizationError")
              /\ UNCHANGED absolute_path
    /\ UNCHANGED << path, caller_file, env, expanded_path, path_buf, up_count,
                    total_components, raw_path >>

\* let absolute_path_str = absolute_path.to_str() ..; TokenStream::from(..)
ToStr ==
    /\ pc = "to_str"
    /\ stages' = Append(stages, "to_str")
    /\ \/ /\ to_str(absolute_path).some
          /\ result' = to_str(absolute_path).str
          /\ outcome' = "Ok"
          /\ surfaced' = "string_literal"
          /\ pc' = StageAfter("to_str")
       \/ /\ ~to_str(absolute_path).some
          /\ Panic("NonUtf8PathError")
    /\ UNCHANGED << path, caller_file, env, expanded_path, path_buf, up_count,
                    total_components, raw_path, absolute_path, fs_accesses >>

Next == ExpandEnv \/ Validate \/ Anchor \/ Canonicalize \/ ToStr

Spec == Init /\ [][Next]_vars

\* ------------------------------------------------- vocabulary of the claims

Ran(stage) == \E i \in 1..Len(stages) : stages[i] = stage

Done == pc = "done"

Failures ==
    { "EnvExpansionError", "SuspiciousPathError", "NoParentDirectoryError",
      "CanonicalizationError", "NonUtf8PathError" }

\* The ".." segments and all components of a text, counted from its segments.
UpOf(p) == Cardinality({i \in 1..Len(SplitSegs(p)) : SplitSegs(p)[i] = DOTDOT})

TotalOf(p) ==
    Cardinality({i \in 1..Len(SplitSegs(p)) : SplitSegs(p)[i] \notin {<<>>, DOT}})
    + (IF Len(p) > 0 /\ p[1] = SEP THEN 1 ELSE 0)
    + (IF Len(p) > 0 /\ p[1] # SEP /\ SplitSegs(p)[1] = DOT THEN 1 ELSE 0)

\* The rule of the traversal validator as the documentation states it.
TooFarUp(p) == UpOf(p) > 3 \/ (TotalOf(p) > 0 /\ UpOf(p) > TotalOf(p) \div 2)

Rejected == Ran("validate") /\ outcome = "SuspiciousPathError"
Accepted == Ran("validate") /\ outcome # "SuspiciousPathError"

Expanded == Ran("expand") /\ outcome # "EnvExpansionError"

\* C2: when the expanded path is one the validator classifies as suspicious,
\* the invocation ends with SuspiciousPathError and the file system has not
\* been accessed at any point of the run.
C2_RejectedBeforeFileSystem ==
    (Expanded /\ TooFarUp(path_buf)) =>
        /\ fs_accesses = 0
        /\ ~Ran("anchor") /\ ~Ran("canonicalize") /\ ~Ran("to_str")
        /\ raw_path = NoValue /\ absolute_path = NoValue
        /\ pc \in {"validate", "done"}
        /\ Done => (outcome = "SuspiciousPathError" /\ result = NoValue)

\* The entry a text leads to from the root or the directory of the build.
EntryOf(p) ==
    IF p = <<>> THEN Failed("ENOENT")
    ELSE Resolve(IF p[1] = SEP THEN Root ELSE CurrentDir, SplitSegs(p), MaxLinks)

\* "../../../../h/a" from /p/s/m: the target exists and the path was rejected.
C2_Witness ==
    /\ Done
    /\ outcome = "SuspiciousPathError"
    /\ up_count = 4
    /\ caller_file = <<"/", "p", "/", "s", "/", "m">>
    /\ path_buf = <<".", ".", "/", ".", ".", "/", ".", ".", "/", ".", ".", "/",
                    "h", "/", "a">>
    /\ EntryOf(<<"/", "p", "/", "s", "/">> \o path_buf).ok

\* The variables a literal refers to, read off its text from left to right.
RECURSIVE VarRefs(_)
VarRefs(s) ==
    IF s = <<>> THEN {}
    ELSE IF s[1] # "$" THEN VarRefs(Tail(s))
    ELSE IF Len(s) >= 2 /\ s[2] = "$" THEN VarRefs(Drop(s, 2))
    ELSE IF Len(s) >= 2 /\ s[2] = "{"
    THEN IF FirstIndexOf(s, "}") = 0 THEN VarRefs(Drop(s, 2))
         ELSE {SubSeq(s, 3, FirstIndexOf(s, "}") - 1)}
              \cup VarRefs(Drop(s, FirstIndexOf(s, "}")))
    ELSE IF Len(s) >= 2 /\ s[2] \in NameChars
    THEN {SubSeq(s, 2, 1 + NameLen(Tail(s)))} \cup VarRefs(Drop(s, 1 + NameLen(Tail(s))))
    ELSE VarRefs(Tail(s))

HasValue(name) == name \in DOMAIN env /\ env[name] \notin {Unset, NotUnicode}

RefersToMissing == \E name \in VarRefs(path) : ~HasValue(name)

ExpandedText == shellexpand_env(path, env).value

CallerDir == parent(caller_file).path

StartsAtRoot(p) == p # <<>> /\ p[1] = SEP

HasTarget ==
    /\ ~RefersToMissing
    /\ (StartsAtRoot(ExpandedText) \/ parent(caller_file).some)

TargetText ==
    IF StartsAtRoot(ExpandedText) THEN ExpandedText
    ELSE IF CallerDir = <<>> \/ CallerDir[Len(CallerDir)] = SEP
    THEN CallerDir \o ExpandedText
    ELSE CallerDir \o <<SEP>> \o ExpandedText

TargetMissing == HasTarget /\ ~EntryOf(TargetText).ok

\* C4 as stated: a literal naming nothing in the file system ends with
\* CanonicalizationError and returns no string.
C4_AsStated ==
    (Done /\ TargetMissing) =>
        (outcome = "CanonicalizationError" /\ result = NoValue)

\* C4: a literal naming nothing in the file system never returns a string; it
\* ends with CanonicalizationError when the validator accepts the expanded
\* path, and with SuspiciousPathError, the file system untouched, when the
\* validator rejects it.
C4_MissingTargetFails ==
    (Done /\ TargetMissing) =>
        /\ result = NoValue
        /\ outcome # "Ok"
        /\ ~TooFarUp(ExpandedText) =>
              (outcome = "CanonicalizationError" /\ fs_accesses = 1)
        /\ TooFarUp(ExpandedText) =>
              (outcome = "SuspiciousPathError" /\ fs_accesses = 0)

\* "z" beside the caller's file does not exist and canonicalization failed.
C4_Witness ==
    /\ Done
    /\ TargetMissing
    /\ path = <<"z">>
    /\ raw_path = <<"/", "p", "/", "s", "/", "z">>
    /\ outcome = "CanonicalizationError"

\* The entry the directory of the caller's file is, and the entry the expanded
\* path leads to from there.
CallerDirEntry == IF CallerDir = <<>> THEN Found(CurrentDir) ELSE EntryOf(CallerDir)

EntryFromCallerDir ==
    IF ~CallerDirEntry.ok \/ path_buf = <<>> THEN CallerDirEntry
    ELSE Resolve(CallerDirEntry.node, SplitSegs(path_buf), MaxLinks)

\* C5: a relative expanded path that resolves gives the canonical path of the
\* entry it leads to from the directory of the caller's file; the raw path is
\* that directory followed by the expanded path as written.
C5_RelativeAnchoredAtCaller ==
    (Ran("anchor") /\ ~StartsAtRoot(path_buf)
                   /\ outcome # "NoParentDirectoryError") =>
        /\ parent(caller_file).some
        /\ raw_path = TargetText
        /\ SubSeq(raw_path, Len(raw_path) - Len(path_buf) + 1, Len(raw_path)) = path_buf
        /\ (Done /\ outcome = "Ok") =>
              (EntryFromCallerDir.ok /\ result = PathOf(EntryFromCallerDir.node))
        /\ (Done /\ path = <<".", ".", "/", "c">>
                 /\ caller_file = <<"/", "p", "/", "s", "/", "m">>) =>
              (outcome = "Ok" /\ result = <<"/", "p", "/", "c">>)

\* "l/../h/a" from /p/s/m, l a link to /h: the ".." is taken in the file
\* system, not in the text.
C5_Witness ==
    /\ Done
    /\ outcome = "Ok"
    /\ caller_file = <<"/", "p", "/", "s", "/", "m">>
    /\ path_buf = <<"l", "/", ".", ".", "/", "h", "/", "a">>
    /\ raw_path = <<"/", "p", "/", "s", "/", "l", "/", ".", ".", "/", "h", "/", "a">>
    /\ result = <<"/", "h", "/", "a">>

\* What an absolute expanded path ends with, from the path alone.
AbsoluteOutcome(p) ==
    IF TooFarUp(p) THEN <<"SuspiciousPathError", NoValue>>
    ELSE IF ~EntryOf(p).ok THEN <<"CanonicalizationError", NoValue>>
    ELSE IF \E i \in 1..Len(PathOf(EntryOf(p).node)) : PathOf(EntryOf(p).node)[i] = "xFF"
    THEN <<"NonUtf8PathError", NoValue>>
    ELSE <<"Ok", PathOf(EntryOf(p).node)>>

\* C6: with an absolute expanded path the outcome is decided by that path
\* alone, whatever the caller's file is, and is never NoParentDirectoryError.
C6_AbsoluteIgnoresCaller ==
    (Expanded /\ StartsAtRoot(path_buf)) =>
        /\ outcome # "NoParentDirectoryError"
        /\ Ran("anchor") => raw_path = path_buf
        /\ Done => <<outcome, result>> = AbsoluteOutcome(path_buf)

\* "/p/c" resolved for a caller's file that has no parent.
C6_Witness ==
    /\ Done
    /\ outcome = "Ok"
    /\ path_buf = <<"/", "p", "/", "c">>
    /\ ~parent(caller_file).some
    /\ result = <<"/", "p", "/", "c">>

\* The named segments of a text.
NamedOf(p) ==
    Cardinality({i \in 1..Len(SplitSegs(p)) :
                    SplitSegs(p)[i] \notin {<<>>, DOT, DOTDOT}})

\* H holds the absolute path of a directory, with no "..".
HIsDirectory ==
    /\ HasValue(VarH)
    /\ env[VarH][1] = SEP
    /\ UpOf(env[VarH]) = 0
    /\ NamedOf(env[VarH]) >= 1
    /\ EntryOf(env[VarH]).ok
    /\ EntryOf(env[VarH]).node \in Dirs

\* C7: validation and anchoring work on the expanded path: the components of a
\* variable's value are counted and make the path absolute.  With H the
\* absolute path of a directory of k named segments, "$H" resolves to the
\* canonical form of the value and "$H/../" is accepted with up = 1 and
\* total = k + 2 and resolves to the canonical form of the value followed by
\* "/../", for every caller's file.
C7_ValidatedAfterExpansion ==
    /\ Ran("validate") =>
          (up_count = UpOf(ExpandedText) /\ total_components = TotalOf(ExpandedText))
    /\ (Ran("anchor") /\ StartsAtRoot(ExpandedText)) =>
          raw_path = ExpandedText
    /\ (HIsDirectory /\ path = <<"$", "H">> /\ Done) =>
          (outcome = "Ok" /\ result = PathOf(EntryOf(env[VarH]).node))
    /\ (HIsDirectory /\ path = <<"$", "H", "/", ".", ".", "/">> /\ Ran("validate")) =>
          /\ Accepted
          /\ up_count = 1
          /\ total_components = NamedOf(env[VarH]) + 2
          /\ Done =>
                /\ outcome = "Ok"
                /\ result = PathOf(EntryOf(env[VarH] \o <<"/", ".", ".", "/">>).node)

\* "$H/../" with H = /h/a, called from a file that has no parent.
C7_Witness ==
    /\ Done
    /\ path = <<"$", "H", "/", ".", ".", "/">>
    /\ env[VarH] = <<"/", "h", "/", "a">>
    /\ ~parent(caller_file).some
    /\ total_components = 4
    /\ result = <<"/", "h">>

\* C8: every failure is handed to the compiler as a diagnostic at the span of
\* the literal.
C8_FailuresAreSpanDiagnostics ==
    (Done /\ outcome \in Failures) => surfaced = "compile_error"

Order == <<"expand", "validate", "anchor", "canonicalize", "to_str">>

\* The outcome and the number of stages run, from the inputs: the failure of
\* the earliest stage whose trigger holds.
ExpectedEnd ==
    IF RefersToMissing THEN <<"EnvExpansionError", 1>>
    ELSE IF TooFarUp(ExpandedText) THEN <<"SuspiciousPathError", 2>>
    ELSE IF ~HasTarget THEN <<"NoParentDirectoryError", 3>>
    ELSE IF TargetMissing THEN <<"CanonicalizationError", 4>>
    ELSE IF \E i \in 1..Len(PathOf(EntryOf(TargetText).node)) :
                PathOf(EntryOf(TargetText).node)[i] = "xFF"
    THEN <<"NonUtf8PathError", 5>>
    ELSE <<"Ok", 5>>

\* C9: the stages run at most once each, in the order expansion, validation,
\* anchoring, canonicalization, conversion; the run stops at the first stage
\* that fails, reports that stage's failure, and ends with one outcome.
C9_StagesInOrder ==
    /\ Len(stages) <= Len(Order)
    /\ \A i \in 1..Len(stages) : stages[i] = Order[i]
    /\ ~Done => (outcome = "Running" /\ result = NoValue /\ surfaced = "nothing")
    /\ Done =>
          /\ outcome = ExpectedEnd[1]
          /\ Len(stages) = ExpectedEnd[2]
          /\ outcome \in Failures \cup {"Ok"}
          /\ (outcome = "Ok") <=> (result # NoValue)
          /\ ~ENABLED Next

\* "$U/../../../../z" called from "/": the triggers of three failures hold and
\* the first stage's failure is the one reported.
C9_Witness ==
    /\ Done
    /\ path = <<"$", "U", "/", ".", ".", "/", ".", ".", "/", ".", ".", "/",
                ".", ".", "/", "z">>
    /\ UpOf(path) = 4
    /\ ~parent(caller_file).some
    /\ outcome = "EnvExpansionError"
    /\ stages = <<"expand">>

====
